---- MODULE Spec2Model ----
(***************************************************************************)
(* Verification model of the sensor pipeline in                            *)
(* src/autoencoder_5_min_31_pipeline_with_full_mlflow_logging.py:          *)
(*   - steady_state_extraction / steady_state_extraction_core  (SpecSeg)   *)
(*   - preprocess_remove_sensor_errors                         (SpecRange) *)
(*   - data_preprocessor                                       (SpecPrep)  *)
(* Floating-point values are modelled by exact rationals (numerator and    *)
(* denominator kept as arbitrary-precision naturals).                      *)
(***************************************************************************)
EXTENDS Integers, Sequences, FiniteSets, TLC

(***************************************************************************)
(* Bounds of the model.                                                    *)
(***************************************************************************)
MaxT == 5
MaxL == 4
MaxStep == 2

(***************************************************************************)
(* Program constants of steady_state_extraction.                           *)
(***************************************************************************)
distance_threshold == 700
\* alpha = 0.2 = alpha_num / alpha_den
alpha_num == 1
alpha_den == 5

\* The missing-value marker (np.nan) of a numeric series.
NaN == 0 - 1

\* Shaft-power readings the model draws its input series from.
PowerLevels == {0, 4000}

Min2(a, b) == IF a < b THEN a ELSE b
Max2(a, b) == IF a > b THEN a ELSE b

(***************************************************************************)
(* Arbitrary-precision naturals: little-endian sequences of limbs in       *)
(* 0..Base-1 without leading zero limbs (zero is the empty sequence).      *)
(* They carry the exact value of the float arithmetic of the smoothing and *)
(* of the Ward linkage distances.                                          *)
(***************************************************************************)
Base == 100 * 100

RECURSIVE BigOf(_)
BigOf(n) == IF n = 0 THEN <<>> ELSE <<n % Base>> \o BigOf(n \div Base)

RECURSIVE BigAddC(_, _, _)
BigAddC(a, b, c) ==
    IF a = <<>> /\ b = <<>>
    THEN (IF c = 0 THEN <<>> ELSE <<c>>)
    ELSE LET x == IF a = <<>> THEN 0 ELSE Head(a)
             y == IF b = <<>> THEN 0 ELSE Head(b)
             s == x + y + c
         IN  <<s % Base>> \o BigAddC(IF a = <<>> THEN <<>> ELSE Tail(a),
                                     IF b = <<>> THEN <<>> ELSE Tail(b),
                                     s \div Base)

BigAdd(a, b) == BigAddC(a, b, 0)

RECURSIVE BigStrip(_)
BigStrip(a) ==
    IF a = <<>> THEN <<>>
    ELSE IF a[Len(a)] = 0 THEN BigStrip(SubSeq(a, 1, Len(a) - 1))
    ELSE a

RECURSIVE BigMulSmallC(_, _, _)
BigMulSmallC(a, k, c) ==
    IF a = <<>>
    THEN (IF c = 0 THEN <<>> ELSE <<c>>)
    ELSE LET s == Head(a) * k + c
         IN  <<s % Base>> \o BigMulSmallC(Tail(a), k, s \div Base)

BigMulSmall(a, k) == IF k = 0 THEN <<>> ELSE BigMulSmallC(a, k, 0)

BigShift(a) == IF a = <<>> THEN <<>> ELSE <<0>> \o a

RECURSIVE BigMul(_, _)
BigMul(a, b) ==
    IF b = <<>> \/ a = <<>> THEN <<>>
    ELSE BigAdd(BigMulSmall(a, Head(b)), BigShift(BigMul(a, Tail(b))))

RECURSIVE BigCmpFrom(_, _, _)
BigCmpFrom(a, b, i) ==
    IF i = 0 THEN 0
    ELSE IF a[i] < b[i] THEN 0 - 1
    ELSE IF a[i] > b[i] THEN 1
    ELSE BigCmpFrom(a, b, i - 1)

\* -1, 0 or 1 as a < b, a = b, a > b
BigCmp(a, b) ==
    IF Len(a) < Len(b) THEN 0 - 1
    ELSE IF Len(a) > Len(b) THEN 1
    ELSE BigCmpFrom(a, b, Len(a))

BigLess(a, b) == BigCmp(a, b) < 0

RECURSIVE BigSubB(_, _, _)
\* a - b - borrow for a >= b + borrow (limbs not yet stripped)
BigSubB(a, b, br) ==
    IF a = <<>> THEN <<>>
    ELSE LET y == IF b = <<>> THEN 0 ELSE Head(b)
             s == Head(a) - y - br
         IN  IF s < 0
             THEN <<s + Base>> \o BigSubB(Tail(a), IF b = <<>> THEN <<>> ELSE Tail(b), 1)
             ELSE <<s>> \o BigSubB(Tail(a), IF b = <<>> THEN <<>> ELSE Tail(b), 0)

BigAbsDiff(a, b) ==
    IF BigLess(a, b) THEN BigStrip(BigSubB(b, a, 0)) ELSE BigStrip(BigSubB(a, b, 0))

RECURSIVE IntPow(_, _)
IntPow(b, e) == IF e = 0 THEN 1 ELSE b * IntPow(b, e - 1)

(***************************************************************************)
(* series.ewm(alpha=alpha).mean()  (adjust=True, ignore_na=False):         *)
(*   y[t] = sum_i (1-alpha)^(t-i) x[i] / sum_i (1-alpha)^(t-i)             *)
(* over the non-missing x[i], i <= t; a missing x[t] repeats the running   *)
(* mean; y[t] is missing while no sample has been seen.  Both sums are     *)
(* scaled by alpha_den^t: a value is the pair <<numerator, denominator>>,  *)
(* the missing value is <<>>.  Indices are 1-based here (sample t of the   *)
(* code is position t+1).                                                  *)
(***************************************************************************)
EwmWeight(t, i) == IntPow(alpha_den - alpha_num, t - i) * IntPow(alpha_den, i - 1)

RECURSIVE EwmNum(_, _, _)
EwmNum(series, t, i) ==
    IF i = 0 THEN <<>>
    ELSE IF series[i] = NaN THEN EwmNum(series, t, i - 1)
    ELSE BigAdd(BigMulSmall(BigOf(EwmWeight(t, i)), series[i]), EwmNum(series, t, i - 1))

RECURSIVE EwmDen(_, _, _)
EwmDen(series, t, i) ==
    IF i = 0 THEN <<>>
    ELSE IF series[i] = NaN THEN EwmDen(series, t, i - 1)
    ELSE BigAdd(BigOf(EwmWeight(t, i)), EwmDen(series, t, i - 1))

EwmMean(series) ==
    [t \in 1..Len(series) |->
        IF \A i \in 1..t : series[i] = NaN
        THEN <<>>
        ELSE <<EwmNum(series, t, t), EwmDen(series, t, t)>>]

IsNaN(v) == v = <<>>

\* equality of two smoothed values (cross-multiplication)
RatEq(u, v) ==
    IF IsNaN(u) \/ IsNaN(v) THEN FALSE
    ELSE BigMul(u[1], v[2]) = BigMul(v[1], u[2])


(***************************************************************************)
(* AgglomerativeClustering(n_clusters=None, distance_threshold)            *)
(*     .fit_predict(window.reshape(-1, 1))                                 *)
(* Ward linkage on one-dimensional points.  The window's values are put on *)
(* the common denominator WinScale; a cluster is [id, size, sum].  The     *)
(* squared Ward distance of clusters A and B is                            *)
(*     2 |A||B| / (|A|+|B|) * (mean A - mean B)^2                          *)
(*   = 2 (|B| sum A - |A| sum B)^2 / (|A||B|(|A|+|B|))   (in WinScale^2),  *)
(* kept as <<numerator, denominator>>.                                     *)
(***************************************************************************)
\* product of the denominators of window positions 1..k except position skip
DenProduct(window, skip) ==
    LET RECURSIVE Go(_)
        Go(k) == IF k = 0 THEN BigOf(1)
                 ELSE IF k = skip THEN Go(k - 1)
                 ELSE BigMul(window[k][2], Go(k - 1))
    IN  Go(Len(window))

WinScale(window) == DenProduct(window, 0)

WinValue(window, k) == BigMul(window[k][1], DenProduct(window, k))

WardDist2(A, B) ==
    LET d == BigAbsDiff(BigMulSmall(A.sum, B.size), BigMulSmall(B.sum, A.size))
    IN  <<BigMulSmall(BigMul(d, d), 2), A.size * B.size * (A.size + B.size)>>

\* d1 < d2 for two squared distances
Dist2Less(d1, d2) == BigLess(BigMulSmall(d1[1], d2[2]), BigMulSmall(d2[1], d1[2]))

\* threshold^2 in units of scale^2
Threshold2(scale, threshold) == BigMul(BigMul(scale, scale), BigOf(threshold * threshold))

\* distance >= threshold, for a squared distance and threshold2 = threshold^2
Dist2AtLeast(d, threshold2) == ~ BigLess(d[1], BigMulSmall(threshold2, d[2]))

ClusterPairs(active) == {pr \in SUBSET active : Cardinality(pr) = 2}

PairDist2(pr) ==
    LET A == CHOOSE x \in pr : TRUE
        B == CHOOSE x \in pr : x # A
    IN  WardDist2(A, B)

\* the pairs of clusters at minimal Ward distance (more than one on an exact tie)
ClosestPairs(active) ==
    LET dist == {<<pr, PairDist2(pr)>> : pr \in ClusterPairs(active)}
    IN  {x[1] : x \in {y \in dist : \A z \in dist : ~ Dist2Less(z[2], y[2])}}

MergePair(pr, id) ==
    LET A == CHOOSE x \in pr : TRUE
        B == CHOOSE x \in pr : x # A
    IN  [id |-> id, size |-> A.size + B.size, sum |-> BigAdd(A.sum, B.sum)]

MergeRow(pr) ==
    LET A == CHOOSE x \in pr : TRUE
        B == CHOOSE x \in pr : x # A
    IN  [children |-> <<Min2(A.id, B.id), Max2(A.id, B.id)>>, dist |-> PairDist2(pr)]

(* scipy.cluster.hierarchy.ward: the linkage matrix, rows in increasing     *)
(* distance; row k merges two clusters into node n_leaves + k.  The result  *)
(* is the set of linkage matrices the exact ties of the input allow.        *)
RECURSIVE WardLinkage(_, _)
WardLinkage(active, nextId) ==
    IF Cardinality(active) <= 1 THEN {<<>>}
    ELSE UNION { { <<MergeRow(pr)>> \o rest :
                     rest \in WardLinkage((active \ pr) \cup {MergePair(pr, nextId)},
                                          nextId + 1) } :
                 pr \in ClosestPairs(active) }

ward_tree(window) ==
    WardLinkage({[id |-> k - 1, size |-> 1, sum |-> WinValue(window, k)] :
                    k \in 1..Len(window)},
                Len(window))

\* n_clusters_ = np.count_nonzero(distances_ >= distance_threshold) + 1
NClusters(Z, threshold2) ==
    Cardinality({k \in 1..Len(Z) : Dist2AtLeast(Z[k].dist, threshold2)}) + 1

(***************************************************************************)
(* heapq on a list (positions 1-based here).                               *)
(***************************************************************************)
Swap(h, p, q) == [h EXCEPT ![p] = h[q], ![q] = h[p]]

RECURSIVE SiftDown(_, _, _)
\* heapq._siftdown: bubble the item at pos up towards startpos
SiftDown(h, startpos, pos) ==
    IF pos > startpos /\ h[pos] < h[pos \div 2]
    THEN SiftDown(Swap(h, pos, pos \div 2), startpos, pos \div 2)
    ELSE h

RECURSIVE SiftUpHole(_, _)
\* heapq._siftup, first loop: move the smaller child up until a leaf is hit
SiftUpHole(h, pos) ==
    LET childpos == 2 * pos
        rightpos == childpos + 1
        c == IF rightpos <= Len(h) /\ ~ (h[childpos] < h[rightpos])
             THEN rightpos ELSE childpos
    IN  IF childpos > Len(h) THEN <<h, pos>>
        ELSE SiftUpHole([h EXCEPT ![pos] = h[c]], c)

SiftUp(h, pos) ==
    LET newitem == h[pos]
        moved == SiftUpHole(h, pos)
    IN  SiftDown([moved[1] EXCEPT ![moved[2]] = newitem], pos, moved[2])

heappush(h, item) == SiftDown(Append(h, item), 1, Len(h) + 1)

\* the heap after heappushpop(h, item)
heappushpop(h, item) ==
    IF Len(h) > 0 /\ h[1] < item THEN SiftUp([h EXCEPT ![1] = item], 1) ELSE h

RECURSIVE hc_get_descendent(_, _, _)
\* the leaves below a node of the tree
hc_get_descendent(node, children, n_leaves) ==
    IF node < n_leaves THEN {node}
    ELSE hc_get_descendent(children[node - n_leaves + 1][1], children, n_leaves)
         \cup hc_get_descendent(children[node - n_leaves + 1][2], children, n_leaves)

RECURSIVE HcCutNodes(_, _, _, _)
HcCutNodes(nodes, k, children, n_leaves) ==
    IF k = 0 THEN nodes
    ELSE LET these_children == children[(0 - nodes[1]) - n_leaves + 1]
         IN  HcCutNodes(heappushpop(heappush(nodes, 0 - these_children[1]),
                                    0 - these_children[2]),
                        k - 1, children, n_leaves)

\* sklearn.cluster._agglomerative._hc_cut: one label per leaf
hc_cut(n_clusters, children, n_leaves) ==
    LET root  == Max2(children[Len(children)][1], children[Len(children)][2]) + 1
        nodes == HcCutNodes(<<0 - root>>, n_clusters - 1, children, n_leaves)
    IN  [leaf \in 1..n_leaves |->
            (CHOOSE i \in 1..Len(nodes) :
                (leaf - 1) \in hc_get_descendent(0 - nodes[i], children, n_leaves)) - 1]

\* fit_predict raises ValueError on a missing value or on fewer than 2 samples
FitRaises(window) == Len(window) < 2 \/ \E k \in 1..Len(window) : IsNaN(window[k])

\* the label vectors fit_predict can return for a window it accepts
fit_predict(window, threshold) ==
    LET threshold2 == Threshold2(WinScale(window), threshold)
    IN  { hc_cut(NClusters(Z, threshold2), [k \in 1..Len(Z) |-> Z[k].children],
                 Len(window)) :
          Z \in ward_tree(window) }


(***************************************************************************)
(* The per-window label of steady_state_extraction_core.                   *)
(***************************************************************************)
\* r = len(np.unique(states))
NumStates(st) == Cardinality({st[t] : t \in 1..Len(st)})

\* variant of TransitionCounts: a pair of equal consecutive states is not counted
TransitionCounts_NoSelf(st) ==
    LET r == NumStates(st)
    IN  [i \in 0..(r - 1) |-> [j \in 0..(r - 1) |->
            Cardinality({t \in 1..(Len(st) - 1) : st[t] = i /\ st[t + 1] = j /\ i # j})]]

\* C[i, j] += 1 for every consecutive pair (states[t], states[t+1])
TransitionCounts(st) ==
    LET r == NumStates(st)
    IN  [i \in 0..(r - 1) |-> [j \in 0..(r - 1) |->
            Cardinality({t \in 1..(Len(st) - 1) : st[t] = i /\ st[t + 1] = j})]]

RECURSIVE SumRow(_, _)
SumRow(row, j) == IF j < 0 THEN 0 ELSE row[j] + SumRow(row, j - 1)

RowSum(C, i) == SumRow(C[i], Cardinality(DOMAIN C) - 1)

\* P[i] = C[i] / row_sum when row_sum > 0, else the zero row; an entry is the
\* fraction <<numerator, denominator>>
TransitionProbs(C) ==
    [i \in DOMAIN C |-> [j \in DOMAIN C |->
        IF RowSum(C, i) > 0 THEN <<C[i][j], RowSum(C, i)>> ELSE <<0, 1>>]]

\* B = (P > 0).astype(np.uint8)
Binarize(P) ==
    [i \in DOMAIN P |-> [j \in DOMAIN P |-> IF P[i][j][1] > 0 THEN 1 ELSE 0]]

Pixels(B) == (DOMAIN B) \X (DOMAIN B)

Abs(x) == IF x < 0 THEN 0 - x ELSE x

\* 4-connectivity: the pixel above, below, left or right
Neighbours4(p, q) == Abs(p[1] - q[1]) + Abs(p[2] - q[2]) = 1

RECURSIVE FloodFill(_, _)
\* the foreground pixels connected to the set S
FloodFill(B, S) ==
    LET grown == S \cup {q \in Pixels(B) :
                            B[q[1]][q[2]] = 1 /\ \E p \in S : Neighbours4(p, q)}
    IN  IF grown = S THEN S ELSE FloodFill(B, grown)

RECURSIVE ComponentScan(_, _, _, _)
\* raster scan: an unlabelled foreground pixel starts the next component
ComponentScan(B, k, img, next) ==
    LET r == Cardinality(DOMAIN B)
        p == <<k \div r, k % r>>
    IN  IF k >= r * r THEN img
        ELSE IF B[p[1]][p[2]] = 1 /\ img[p] = 0
        THEN LET comp == FloodFill(B, {p})
             IN  ComponentScan(B, k + 1,
                               [q \in Pixels(B) |-> IF q \in comp THEN next ELSE img[q]],
                               next + 1)
        ELSE ComponentScan(B, k + 1, img, next)

\* cv2.connectedComponents(B, connectivity=4): labels_img, 0 for the background
connectedComponents(B) == ComponentScan(B, 0, [q \in Pixels(B) |-> 0], 1)

\* num_labels, the background included
NumLabels(img) ==
    1 + Cardinality({c \in 1..Cardinality(DOMAIN img) : \E q \in DOMAIN img : img[q] = c})

\* counts = np.bincount(labels_img.flatten())[1:]
ComponentCounts(img) ==
    [c \in 1..(NumLabels(img) - 1) |-> Cardinality({q \in DOMAIN img : img[q] = c})]

\* variant of MainLabel: a tie goes to the last maximum
MainLabel_LastMax(counts) ==
    IF Len(counts) > 0
    THEN CHOOSE c \in 1..Len(counts) :
            /\ \A e \in 1..Len(counts) : counts[e] <= counts[c]
            /\ \A e \in (c + 1)..Len(counts) : counts[e] < counts[c]
    ELSE 0

\* np.argmax(counts) + 1 if counts.size > 0 else 0
MainLabel(counts) ==
    IF Len(counts) > 0
    THEN CHOOSE c \in 1..Len(counts) :
            /\ \A e \in 1..Len(counts) : counts[e] <= counts[c]
            /\ \A e \in 1..(c - 1) : counts[e] < counts[c]
    ELSE 0

\* variant of WindowLabel: a single-cluster window is labelled 0
WindowLabel_TrivialZero(st) ==
    IF NumStates(st) = 1 THEN 0
    ELSE MainLabel(ComponentCounts(connectedComponents(
             Binarize(TransitionProbs(TransitionCounts(st))))))

\* the label appended to seq_labels for a window with cluster states st
WindowLabel(st) ==
    IF NumStates(st) = 1 THEN 1
    ELSE MainLabel(ComponentCounts(connectedComponents(
             Binarize(TransitionProbs(TransitionCounts(st))))))

(***************************************************************************)
(* Windows and the back-projection of the window labels.                   *)
(***************************************************************************)
\* range(0, len(series_smoothed) - L + 1, step)
\* variant of WindowStarts: range(0, T - len, stride), the last start left out
WindowStarts_ExclusiveEnd(T, len, stride) ==
    LET n == IF T - len <= 0 THEN 0 ELSE ((T - len - 1) \div stride) + 1
    IN  [k \in 1..n |-> (k - 1) * stride]

WindowStarts(T, len, stride) ==
    LET n == IF T - len + 1 <= 0 THEN 0 ELSE ((T - len) \div stride) + 1
    IN  [k \in 1..n |-> (k - 1) * stride]

MakeWindows(smoothed, len, stride) ==
    LET starts == WindowStarts(Len(smoothed), len, stride)
    IN  [k \in 1..Len(starts) |-> SubSeq(smoothed, starts[k] + 1, starts[k] + len)]

\* variant of FinalLabel: a sample with no label to consult is labelled 1
FinalLabel_EmptyIsSteady(t, len, nWindows, labels) ==
    LET i_min == Max2(0, t - len + 1)
        i_max == Min2(t, nWindows - 1)
    IN  IF i_min > i_max THEN 1
        ELSE IF \A i \in i_min..i_max : labels[i + 1] = labels[i_min + 1]
        THEN labels[i_min + 1]
        ELSE 0

\* final_labels[t] for the 0-based sample t
FinalLabel(t, len, nWindows, labels) ==
    LET i_min == Max2(0, t - len + 1)
        i_max == Min2(t, nWindows - 1)
    IN  IF i_min <= i_max /\ \A i \in i_min..i_max : labels[i + 1] = labels[i_min + 1]
        THEN labels[i_min + 1]
        ELSE 0

FinalLabels(T, len, nWindows, labels) ==
    [t \in 1..T |-> FinalLabel(t - 1, len, nWindows, labels)]

(***************************************************************************)
(* State.                                                                  *)
(***************************************************************************)
VARIABLES
    pc,               \* position of the modelled step
    \* steady_state_extraction
    series,           \* updated_df['ME SHAFT POWER'], NaN where missing
    L,                \* window length
    step,             \* window stride
    series_smoothed,  \* the smoothed series
    windows,          \* the windows, in order
    states,           \* the cluster states of each window labelled so far
    seq_labels,       \* one label per window labelled so far
    final_labels,     \* one label per sample
    steady_df,        \* the rows (0-based positions) steady_state_extraction keeps
    \* preprocess_remove_sensor_errors
    arg_df,           \* the table the step was called with
    updated_df,       \* the table the step works on and returns
    col,              \* position of the loop over range_dict
    oor_count,        \* the oor_count metric logged for each channel so far
    total_replaced,   \* total_replaced
    call_no,          \* 1 for the first call, 2 for the call on its own result
    prev_total,       \* total_replaced of the first call, once the second has begun
    \* data_preprocessor
    raw_df,           \* the rows the step was called with, in order
    input_df,         \* input_df
    diffs,            \* diffs, NaN for the first row
    input_df_1min,    \* the high-frequency partition
    input_df_15min,   \* the low-frequency partition
    min1_resampled,   \* the resampled high-frequency partition
    result_df,        \* the table data_preprocessor returns
    \* download_data
    current_start,    \* current_start, in seconds after start_date
    current_end,      \* current_end of the last window requested
    final_df,         \* final_df: whether it has columns, and its number of rows
    final_df_before,  \* final_df before the last window was requested
    window_outcome,   \* how the request for the last window ended
    n_requests,       \* the number of windows requested so far
    \* data_standardization, model_trainer, model_evaluator, evaluate_autoencoder_step
    final_df1,        \* the filtered table: its columns and its number of rows
    excel_cols,       \* the columns of the annotated sheet
    n_anomalies,      \* the number of annotated rows of the sheet
    scaler,           \* the MinMaxScaler: <<>> until fitted, then its parameters
    scaler_returned,  \* the scaler as data_standardization returned it
    X_train,          \* the rows of the filtered table in X_train
    X_valid,          \* the rows of the filtered table in X_valid
    trained_on,       \* the rows the autoencoder was fitted on
    normals,          \* the rows of the filtered table sampled as normals
    common_cols,      \* common_cols
    X_cols,           \* the columns of the feature matrix handed to the scaler
    X_scaled,         \* the scaled feature value of each row of the test set
    y_true,           \* y_true
    reconstruction_error,  \* reconstruction_error, as error levels
    pr_curve,         \* precisions, recalls, thresholds (as tp and fp at each threshold)
    result            \* the result dictionary

segVars == <<series, L, step, series_smoothed, windows, states, seq_labels,
             final_labels, steady_df>>

rangeVars == <<arg_df, updated_df, col, oor_count, total_replaced, call_no, prev_total>>

prepVars == <<raw_df, input_df, diffs, input_df_1min, input_df_15min, min1_resampled,
              result_df>>

dlVars == <<current_start, current_end, final_df, final_df_before, window_outcome,
            n_requests>>

evalVars == <<final_df1, excel_cols, n_anomalies, scaler, scaler_returned, X_train, X_valid,
              trained_on, normals, common_cols, X_cols, X_scaled, y_true,
              reconstruction_error, pr_curve, result>>

vars == <<pc, segVars, rangeVars, prepVars, dlVars, evalVars>>

\* the state of the steps a specification does not run
SegIdle ==
    /\ series = <<>> /\ L = 0 /\ step = 0 /\ series_smoothed = <<>> /\ windows = <<>>
    /\ states = <<>> /\ seq_labels = <<>> /\ final_labels = <<>> /\ steady_df = {}

RangeIdle ==
    /\ arg_df = <<>> /\ updated_df = <<>> /\ col = 0 /\ oor_count = <<>>
    /\ total_replaced = 0 /\ call_no = 0 /\ prev_total = 0

PrepIdle ==
    /\ raw_df = <<>> /\ input_df = <<>> /\ diffs = <<>> /\ input_df_1min = <<>>
    /\ input_df_15min = <<>> /\ min1_resampled = <<>> /\ result_df = <<>>

DlIdle ==
    /\ current_start = 0 /\ current_end = 0 /\ final_df = <<>> /\ final_df_before = <<>>
    /\ window_outcome = "" /\ n_requests = 0

EvalIdle ==
    /\ final_df1 = <<>> /\ excel_cols = {} /\ n_anomalies = 0 /\ scaler = <<>>
    /\ scaler_returned = <<>> /\ X_train = {} /\ X_valid = {} /\ trained_on = {}
    /\ normals = {} /\ common_cols = {} /\ X_cols = {} /\ X_scaled = <<>> /\ y_true = <<>>
    /\ reconstruction_error = <<>> /\ pr_curve = <<>> /\ result = <<>>

\* Inputs whose smoothed series is an exact step from StepLevels[1] down to
\* StepLevels[2]: a samples at the high level, one sample that undoes the memory
\* of the moving average, then the low level.
StepLevels == <<6250, 5000>>

UndershootNum(a) ==
    (StepLevels[1] - StepLevels[2]) * (alpha_den - alpha_num)
        * (IntPow(alpha_den, a) - IntPow(alpha_den - alpha_num, a))

UndershootDen(a) == alpha_num * IntPow(alpha_den, a)

StepSeries(a, b) ==
    [t \in 1..(a + b) |->
        IF t <= a THEN StepLevels[1]
        ELSE IF t = a + 1 THEN StepLevels[2] - (UndershootNum(a) \div UndershootDen(a))
        ELSE StepLevels[2]]

StepInputs ==
    {StepSeries(a, b) : a \in {h \in 1..(MaxT - 1) :
                                  /\ UndershootNum(h) % UndershootDen(h) = 0
                                  /\ UndershootNum(h) \div UndershootDen(h) <= StepLevels[2]},
                        b \in 1..(MaxT - 1)}

\* the input series of n samples
SeriesInputs(n) ==
    [1..n -> PowerLevels \cup {NaN}] \cup {x \in StepInputs : Len(x) = n}

InitSeg ==
    /\ pc = "start"
    /\ \E n \in 0..MaxT : series \in SeriesInputs(n)
    /\ L \in 1..MaxL
    /\ step \in 1..MaxStep
    /\ series_smoothed = <<>>
    /\ windows = <<>>
    /\ states = <<>>
    /\ seq_labels = <<>>
    /\ final_labels = <<>>
    /\ steady_df = {}
    /\ RangeIdle
    /\ PrepIdle
    /\ DlIdle
    /\ EvalIdle

\* series_smoothed = series.ewm(alpha=alpha).mean()
Smooth ==
    /\ pc = "start"
    /\ series_smoothed' = EwmMean(series)
    /\ pc' = "windows"
    /\ UNCHANGED <<series, L, step, windows, states, seq_labels, final_labels, steady_df>>
    /\ UNCHANGED <<rangeVars, prepVars, dlVars, evalVars>>

\* the loop that fills windows
BuildWindows ==
    /\ pc = "windows"
    /\ windows' = MakeWindows(series_smoothed, L, step)
    /\ pc' = IF Len(windows') = 0 THEN "project" ELSE "cluster"
    /\ UNCHANGED <<series, L, step, series_smoothed, states, seq_labels, final_labels,
                   steady_df>>
    /\ UNCHANGED <<rangeVars, prepVars, dlVars, evalVars>>

\* one iteration of the loop over windows: cluster the window and label it
LabelWindow ==
    /\ pc = "cluster"
    /\ LET window == windows[Len(seq_labels) + 1]
       IN  /\ ~ FitRaises(window)
           /\ \E st \in fit_predict(window, distance_threshold) :
                /\ states' = Append(states, st)
                /\ seq_labels' = Append(seq_labels, WindowLabel(st))
    /\ pc' = IF Len(seq_labels') = Len(windows) THEN "project" ELSE "cluster"
    /\ UNCHANGED <<series, L, step, series_smoothed, windows, final_labels, steady_df>>
    /\ UNCHANGED <<rangeVars, prepVars, dlVars, evalVars>>

\* fit_predict raises: the exception leaves the core and the step
ClusterRaises ==
    /\ pc = "cluster"
    /\ FitRaises(windows[Len(seq_labels) + 1])
    /\ pc' = "raised"
    /\ UNCHANGED <<segVars, rangeVars, prepVars, dlVars, evalVars>>

\* the loop that fills final_labels
BackProject ==
    /\ pc = "project"
    /\ final_labels' = FinalLabels(Len(series_smoothed), L, Len(windows), seq_labels)
    /\ pc' = "core_done"
    /\ UNCHANGED <<series, L, step, series_smoothed, windows, states, seq_labels, steady_df>>
    /\ UNCHANGED <<rangeVars, prepVars, dlVars, evalVars>>

\* steady_df = updated_df[labels_me_load != 0]
FilterSteady ==
    /\ pc = "core_done"
    /\ steady_df' = {t \in 0..(Len(final_labels) - 1) : final_labels[t + 1] # 0}
    /\ pc' = "returned"
    /\ UNCHANGED <<series, L, step, series_smoothed, windows, states, seq_labels,
                   final_labels>>
    /\ UNCHANGED <<rangeVars, prepVars, dlVars, evalVars>>

NextSeg ==
    \/ Smooth
    \/ BuildWindows
    \/ LabelWindow
    \/ ClusterRaises
    \/ BackProject
    \/ FilterSteady

SpecSeg == InitSeg /\ [][NextSeg]_vars


(***************************************************************************)
(* preprocess_remove_sensor_errors (specification SpecRange).              *)
(* A table is a sequence of rows, a row a sequence of cells, one for each  *)
(* modelled channel.  A cell is a number, the missing marker, or text that *)
(* is not a number.  Of the 31 channels of range_dict, which the loop      *)
(* treats alike, the model keeps two.                                      *)
(***************************************************************************)
MaxRows == 2

range_dict ==
    << [name |-> "ME T/C 1  EXH. GAS OUT TEMP.", min |-> 0, max |-> 500],
       [name |-> "ME RPM", min |-> 0 - 100, max |-> 99] >>

Num(v) == [kind |-> "num", val |-> v]
NaNCell == [kind |-> "nan", val |-> 0]
TextCell == [kind |-> "text", val |-> 0]

\* the cells the model draws for channel c: around both ends of its range
CellInputs(c) ==
    {Num(range_dict[c].min - 1), Num(range_dict[c].min), Num(range_dict[c].max),
     Num(range_dict[c].max + 1), NaNCell, TextCell}

RowInputs == {<<a, b>> : a \in CellInputs(1), b \in CellInputs(2)}

\* the input tables of n rows
TableInputs(n) == [1..n -> RowInputs]

\* pd.to_numeric(errors='coerce') on one cell
to_numeric(cell) == IF cell.kind = "text" THEN NaNCell ELSE cell

\* updated_df.apply(pd.to_numeric, errors='coerce')
CoerceTable(df) == [i \in 1..Len(df) |-> [c \in 1..Len(df[i]) |-> to_numeric(df[i][c])]]

\* variants of OutOfRange: max_val itself out of range; a missing value out of
\* range; only the upper limit tested
OutOfRange_Inclusive(cell, min_val, max_val) ==
    cell.kind = "num" /\ (cell.val < min_val \/ cell.val >= max_val)

OutOfRange_NotBetween(cell, min_val, max_val) ==
    ~ (cell.kind = "num" /\ cell.val >= min_val /\ cell.val <= max_val)

OutOfRange_UpperOnly(cell, min_val, max_val) ==
    cell.kind = "num" /\ cell.val > max_val

\* (updated_df[col] < min_val) | (updated_df[col] > max_val): a comparison with
\* a missing value is False
OutOfRange(cell, min_val, max_val) ==
    cell.kind = "num" /\ (cell.val < min_val \/ cell.val > max_val)

\* out_of_range_mask, as the set of row positions it selects
out_of_range_mask(df, c) ==
    {i \in 1..Len(df) : OutOfRange(df[i][c], range_dict[c].min, range_dict[c].max)}

InitRange ==
    /\ pc = "rv_start"
    /\ \E n \in 0..MaxRows : arg_df \in TableInputs(n)
    /\ updated_df = <<>>
    /\ col = 0
    /\ oor_count = <<>>
    /\ total_replaced = 0
    /\ call_no = 1
    /\ prev_total = 0
    /\ SegIdle
    /\ PrepIdle
    /\ DlIdle
    /\ EvalIdle

\* updated_df = updated_df.apply(pd.to_numeric, errors='coerce'); total_replaced = 0
Coerce ==
    /\ pc = "rv_start"
    /\ updated_df' = CoerceTable(arg_df)
    /\ col' = 1
    /\ oor_count' = <<>>
    /\ total_replaced' = 0
    /\ pc' = "rv_loop"
    /\ UNCHANGED <<arg_df, call_no, prev_total, segVars, prepVars, dlVars, evalVars>>

\* one iteration of the loop over range_dict.items()
ValidateChannel ==
    /\ pc = "rv_loop"
    /\ col <= Len(range_dict)
    /\ LET mask  == out_of_range_mask(updated_df, col)
           count == Cardinality(mask)
       IN  /\ total_replaced' = total_replaced + count
           /\ updated_df' = [i \in 1..Len(updated_df) |->
                                IF i \in mask
                                THEN [updated_df[i] EXCEPT ![col] = NaNCell]
                                ELSE updated_df[i]]
           /\ oor_count' = Append(oor_count, count)
    /\ col' = col + 1
    /\ UNCHANGED <<pc, arg_df, call_no, prev_total, segVars, prepVars, dlVars, evalVars>>

\* the loop is over: log total_values_replaced and return updated_df
ReturnValidated ==
    /\ pc = "rv_loop"
    /\ col > Len(range_dict)
    /\ pc' = "rv_returned"
    /\ UNCHANGED <<rangeVars, segVars, prepVars, dlVars, evalVars>>

\* the step is run once more, on the table it returned
ValidateAgain ==
    /\ pc = "rv_returned"
    /\ call_no = 1
    /\ arg_df' = updated_df
    /\ prev_total' = total_replaced
    /\ call_no' = 2
    /\ pc' = "rv_start"
    /\ UNCHANGED <<updated_df, col, oor_count, total_replaced, segVars, prepVars, dlVars, evalVars>>

NextRange ==
    \/ Coerce
    \/ ValidateChannel
    \/ ReturnValidated
    \/ ValidateAgain

SpecRange == InitRange /\ [][NextRange]_vars

(***************************************************************************)
(* data_preprocessor (specification SpecPrep).                             *)
(* A row is [t, temp, rpm, other]: its dataTime in seconds and, for        *)
(* 'ME F.O. IN TEMP.', 'ME RPM' and the remaining channels, 1 when a value *)
(* is present and 0 when it is missing.  A table is a sequence of rows.    *)
(***************************************************************************)
MaxPrepRows == 3

\* the cadence threshold of the heuristic split, in seconds
cadence_threshold == 250

\* the resample rule '5T', in seconds
ResampleRule == 5 * 60

SecondsPerDay == 24 * 60 * 60

\* time gaps between consecutive input rows
GapInputs == {0, 60, 250, 900, SecondsPerDay + 60}

ChannelInputs ==
    { [temp |-> 1, rpm |-> 1, other |-> 1],
      [temp |-> 0, rpm |-> 1, other |-> 1],
      [temp |-> 0, rpm |-> 0, other |-> 1],
      [temp |-> 0, rpm |-> 0, other |-> 0] }

RECURSIVE TimeAt(_, _)
TimeAt(gaps, i) == IF i = 1 THEN 0 ELSE TimeAt(gaps, i - 1) + gaps[i - 1]

\* the input tables of n rows
PrepInputs(n) ==
    { [i \in 1..n |-> [t |-> TimeAt(g, i), temp |-> k[i].temp, rpm |-> k[i].rpm,
                       other |-> k[i].other]] :
          g \in [1..(n - 1) -> GapInputs], k \in [1..n -> ChannelInputs] }

RECURSIVE SelectFrom(_, _, _)
SelectFrom(df, keep, i) ==
    IF i > Len(df) THEN <<>>
    ELSE (IF i \in keep THEN <<df[i]>> ELSE <<>>) \o SelectFrom(df, keep, i + 1)

\* the rows of df at the positions in keep, in order (boolean indexing)
SelectRows(df, keep) == SelectFrom(df, keep, 1)

\* dropna(how='all', subset=<every column but dataTime>)
DropAllMissing(df) ==
    SelectRows(df, {i \in 1..Len(df) : df[i].temp = 1 \/ df[i].rpm = 1 \/ df[i].other = 1})

\* drop_duplicates(): the first of equal rows is kept
DropDuplicates(df) ==
    SelectRows(df, {i \in 1..Len(df) : \A j \in 1..(i - 1) : df[j] # df[i]})

\* dropna(subset=['ME F.O. IN TEMP.', 'ME RPM']): how='any' is the default
DropMissingTempOrRpm(df) ==
    SelectRows(df, {i \in 1..Len(df) : df[i].temp = 1 /\ df[i].rpm = 1})

\* Timedelta.seconds: the seconds component of the gap, the whole days left out
DtSeconds(gap) == gap % SecondsPerDay

\* input_df['dataTime'].diff().dt.seconds
Diffs(df) ==
    [i \in 1..Len(df) |-> IF i = 1 THEN NaN ELSE DtSeconds(df[i].t - df[i - 1].t)]

\* the 5-minute bucket of a time
Bucket(t) == t - (t % ResampleRule)

RECURSIVE SortedInsert(_, _)
SortedInsert(sorted, row) ==
    IF sorted = <<>> THEN <<row>>
    ELSE IF row.t < Head(sorted).t THEN <<row>> \o sorted
    ELSE <<Head(sorted)>> \o SortedInsert(Tail(sorted), row)

RECURSIVE SortIndex(_)
\* sort_index(ascending=True); rows of equal time keep their order
SortIndex(df) ==
    IF df = <<>> THEN <<>>
    ELSE SortedInsert(SortIndex(SubSeq(df, 1, Len(df) - 1)), df[Len(df)])

\* diffs < 250 and diffs > 250, as the sets of row positions they select; a
\* comparison with the missing first diff is False
\* variant of HighFrequencyMask: diffs <= 250
HighFrequencyMask_Inclusive(d) == {i \in 1..Len(d) : d[i] # NaN /\ d[i] <= cadence_threshold}

HighFrequencyMask(d) == {i \in 1..Len(d) : d[i] # NaN /\ d[i] < cadence_threshold}

LowFrequencyMask(d) == {i \in 1..Len(d) : d[i] # NaN /\ d[i] > cadence_threshold}

\* The tables resample('5T') with the seeded one-row sample can give: for every
\* non-empty bucket one of its rows, indexed by the bucket.  Which row the
\* seeded draw takes is left open.
ResampleOutcomes(df) ==
    LET buckets == {Bucket(df[i].t) : i \in 1..Len(df)}
        members(b) == {i \in 1..Len(df) : Bucket(df[i].t) = b}
        picks == {pick \in [buckets -> 1..Len(df)] : \A b \in buckets : pick[b] \in members(b)}
        rebased == [k \in 1..Len(df) |-> [df[k] EXCEPT !.t = Bucket(df[k].t)]]
    IN  {SortIndex(SelectRows(rebased, {pick[b] : b \in buckets})) : pick \in picks}

InitPrep ==
    /\ pc = "dp_start"
    /\ \E n \in 0..MaxPrepRows : raw_df \in PrepInputs(n)
    /\ input_df = <<>>
    /\ diffs = <<>>
    /\ input_df_1min = <<>>
    /\ input_df_15min = <<>>
    /\ min1_resampled = <<>>
    /\ result_df = <<>>
    /\ SegIdle
    /\ RangeIdle
    /\ DlIdle
    /\ EvalIdle

\* the column selection, dropna(how='all') and drop_duplicates
PrepClean ==
    /\ pc = "dp_start"
    /\ input_df' = DropDuplicates(DropAllMissing(raw_df))
    /\ pc' = "dp_split"
    /\ UNCHANGED <<raw_df, diffs, input_df_1min, input_df_15min, min1_resampled,
                   result_df, segVars, rangeVars, dlVars, evalVars>>

\* the heuristic split by sampling cadence
PrepSplit ==
    /\ pc = "dp_split"
    /\ diffs' = Diffs(input_df)
    /\ input_df_1min' = SelectRows(input_df, HighFrequencyMask(Diffs(input_df)))
    /\ input_df_15min' = SelectRows(input_df, LowFrequencyMask(Diffs(input_df)))
    /\ pc' = "dp_resample"
    /\ UNCHANGED <<raw_df, input_df, min1_resampled, result_df, segVars, rangeVars, dlVars, evalVars>>

\* set_index + resample('5T').apply(...sample(1, random_state=42)...).dropna(how='all')
PrepResample ==
    /\ pc = "dp_resample"
    /\ min1_resampled' \in ResampleOutcomes(input_df_1min)
    /\ pc' = "dp_concat"
    /\ UNCHANGED <<raw_df, input_df, diffs, input_df_1min, input_df_15min, result_df,
                   segVars, rangeVars, dlVars, evalVars>>

\* pd.concat, dropna(subset=...), sort_index and the return
PrepConcat ==
    /\ pc = "dp_concat"
    /\ result_df' = SortIndex(DropMissingTempOrRpm(input_df_15min \o min1_resampled))
    /\ pc' = "dp_returned"
    /\ UNCHANGED <<raw_df, input_df, diffs, input_df_1min, input_df_15min, min1_resampled,
                   segVars, rangeVars, dlVars, evalVars>>

NextPrep ==
    \/ PrepClean
    \/ PrepSplit
    \/ PrepResample
    \/ PrepConcat

SpecPrep == InitPrep /\ [][NextPrep]_vars


(***************************************************************************)
(* Properties of steady_state_extraction_core (specification SpecSeg).     *)
(***************************************************************************)
CoreDone == pc \in {"core_done", "returned"}

\* u - v > threshold for two smoothed values
RatGapExceeds(u, v, threshold) ==
    BigLess(BigAdd(BigMul(v[1], u[2]), BigMulSmall(BigMul(u[2], v[2]), threshold)),
            BigMul(u[1], v[2]))

\* the smoothed series has no missing value and a single level
FlatSmoothed ==
    /\ Len(series_smoothed) = Len(series)
    /\ \A t \in 1..Len(series_smoothed) :
          ~ IsNaN(series_smoothed[t]) /\ RatEq(series_smoothed[t], series_smoothed[1])

CoveringWindows(t) ==
    {k \in 1..Len(windows) : (k - 1) * step <= t /\ t <= (k - 1) * step + L - 1}

\* C2: the final label of a sample is the common label of the windows that cover
\* it, and 0 when they disagree or when no window covers it.
C2_Original ==
    CoreDone =>
        \A t \in 0..(Len(series) - 1) :
            LET cov == CoveringWindows(t)
            IN  final_labels[t + 1] =
                    IF cov # {} /\ \A k1, k2 \in cov : seq_labels[k1] = seq_labels[k2]
                    THEN seq_labels[CHOOSE k \in cov : TRUE]
                    ELSE 0

\* the binarized transition matrix of a window with cluster states st
WindowB(st) == Binarize(TransitionProbs(TransitionCounts(st)))

Foreground(B) == {p \in Pixels(B) : B[p[1]][p[2]] = 1}

\* a set of foreground pixels no 4-neighbour step leaves
ClosedUnder4(B, S) ==
    \A p \in S : \A q \in Foreground(B) :
        (Abs(p[1] - q[1]) + Abs(p[2] - q[2]) = 1) => q \in S

\* the 4-connected component of the foreground pixel p
ComponentOf(B, p) ==
    {q \in Foreground(B) :
        \A S \in SUBSET Foreground(B) : (p \in S /\ ClosedUnder4(B, S)) => q \in S}

Components(B) == {ComponentOf(B, p) : p \in Foreground(B)}

RasterIndex(B, p) == p[1] * Cardinality(DOMAIN B) + p[2]

\* the raster position of the first pixel of a component
FirstPixel(B, S) ==
    CHOOSE n \in {RasterIndex(B, p) : p \in S} :
        \A m \in {RasterIndex(B, p) : p \in S} : n <= m

\* the number a component gets: components are numbered as they are discovered
DiscoveryRank(B, comps, S) ==
    1 + Cardinality({S2 \in comps : FirstPixel(B, S2) < FirstPixel(B, S)})

\* C3: the label of a window with two or more clusters is the number of the
\* 4-connected component of the binarized transition matrix with the largest
\* member count, the first discovered one on a tie, and 0 without any component.
C3_LargestComponent ==
    \A k \in 1..Len(seq_labels) :
        NumStates(states[k]) >= 2 =>
            LET B == WindowB(states[k])
                comps == Components(B)
            IN  IF comps = {}
                THEN seq_labels[k] = 0
                ELSE \E S \in comps :
                        /\ seq_labels[k] = DiscoveryRank(B, comps, S)
                        /\ \A S2 \in comps :
                              \/ Cardinality(S2) < Cardinality(S)
                              \/ /\ Cardinality(S2) = Cardinality(S)
                                 /\ FirstPixel(B, S) <= FirstPixel(B, S2)

\* a window whose largest component is not the first one discovered
C3_Witness ==
    \E k \in 1..Len(seq_labels) :
        /\ NumStates(states[k]) >= 3
        /\ seq_labels[k] >= 2
        /\ Cardinality(Components(WindowB(states[k]))) >= 2

\* the smoothed series is a single noise-free step down: a samples at one level,
\* then b samples at a level lower by more than the distance threshold
SharpStep(a, b) ==
    /\ a >= 1 /\ b >= 1 /\ Len(series_smoothed) = a + b
    /\ \A t \in 1..(a + b) : ~ IsNaN(series_smoothed[t])
    /\ \A t \in 1..a : RatEq(series_smoothed[t], series_smoothed[1])
    /\ \A t \in (a + 1)..(a + b) : RatEq(series_smoothed[t], series_smoothed[a + 1])
    /\ RatGapExceeds(series_smoothed[1], series_smoothed[a + 1], distance_threshold)

\* C4: on a single sharp step (stride 1, both flat sub-regions at least one
\* window long) the two samples the step lies between are labelled 0, the
\* samples further than L from the step are labelled non-zero, and the
\* 0-labelled samples span at most L samples.
C4_Original ==
    CoreDone =>
        \A a \in 1..Len(series) :
            LET b == Len(series) - a
            IN  (step = 1 /\ L >= 2 /\ a >= L /\ b >= L /\ SharpStep(a, b)) =>
                    /\ final_labels[a] = 0 /\ final_labels[a + 1] = 0
                    /\ \A t \in 1..(a + b) :
                          (t <= a - L \/ t > a + L) => final_labels[t] # 0
                    /\ Cardinality({t \in 1..(a + b) : final_labels[t] = 0}) <= L

\* the cluster states alternate perfectly between two clusters
Alternating(st) ==
    /\ NumStates(st) = 2
    /\ \A t \in 1..(Len(st) - 1) : st[t] # st[t + 1]

\* C5: for a window whose states alternate, the transition counts are all off
\* the diagonal, the binarized matrix has no self-loop, and the edges between
\* the two nodes form one connected component, whose number is the window's
\* label.
C5_Original ==
    \A k \in 1..Len(seq_labels) :
        Alternating(states[k]) =>
            LET C == TransitionCounts(states[k])
                B == WindowB(states[k])
                img == connectedComponents(B)
            IN  /\ C[0][0] = 0 /\ C[1][1] = 0
                /\ B[0][0] = 0 /\ B[1][1] = 0
                /\ NumLabels(img) - 1 = 1
                /\ \A p \in Foreground(B) : img[p] = seq_labels[k]

\* C6: no exception leaves the segmentation: a window that cannot be clustered
\* (identical values, missing values) gets a default label, and every sample
\* gets a final label.  Stated for windows of at least 2 samples.
C6_Original ==
    L >= 2 =>
        /\ pc # "raised"
        /\ CoreDone => Len(final_labels) = Len(series)


(***************************************************************************)
(* Properties of preprocess_remove_sensor_errors (specification SpecRange).*)
(***************************************************************************)
Channels == 1..Len(range_dict)

InRange(cell, c) ==
    cell.kind = "num" /\ range_dict[c].min <= cell.val /\ cell.val <= range_dict[c].max

\* C7: after the step no non-missing value of a channel lies outside its
\* inclusive [min, max], and every value inside the range before the call is
\* unchanged, the values min and max included.
C7_RangeValidated ==
    pc = "rv_returned" =>
        \A i \in 1..Len(arg_df) : \A c \in Channels :
            /\ updated_df[i][c].kind = "nan" \/ InRange(updated_df[i][c], c)
            /\ InRange(arg_df[i][c], c) => updated_df[i][c] = arg_df[i][c]

C7_Witness ==
    /\ pc = "rv_returned" /\ call_no = 1
    /\ \E i \in 1..Len(arg_df) : \E c \in Channels :
          arg_df[i][c] = Num(range_dict[c].max) /\ updated_df[i][c] = arg_df[i][c]
    /\ \E i \in 1..Len(arg_df) : \E c \in Channels :
          arg_df[i][c] = Num(range_dict[c].max + 1) /\ updated_df[i][c] = NaNCell

\* C8: the step run on a table it has already validated changes no cell and
\* reports a replaced count of 0 for every channel and in total.
C8_Idempotent ==
    (pc = "rv_returned" /\ call_no = 2) =>
        /\ updated_df = arg_df
        /\ \A c \in Channels : oor_count[c] = 0
        /\ total_replaced = 0

C8_Witness ==
    /\ pc = "rv_returned" /\ call_no = 2
    /\ prev_total >= 2
    /\ \E i \in 1..Len(arg_df) : \E c \in Channels : arg_df[i][c].kind = "num"

\* the cells of channel c the call was given a value for and returned missing
SetToMissing(c) ==
    {i \in 1..Len(arg_df) : arg_df[i][c].kind # "nan" /\ updated_df[i][c].kind = "nan"}

\* the cells of channel c whose numeric value was outside the range
OutsideRange(c) ==
    {i \in 1..Len(arg_df) : arg_df[i][c].kind = "num" /\ ~ InRange(arg_df[i][c], c)}

RECURSIVE SumSeq(_, _)
SumSeq(q, n) == IF n = 0 THEN 0 ELSE q[n] + SumSeq(q, n - 1)

\* C9 as amended: the replaced count of a channel is the number of its cells
\* whose numeric value was outside the range; these are exactly the numeric
\* cells the call sets to missing (a cell holding text that is no number is set
\* to missing by the numeric coercion and is not counted); the total is the sum
\* of the per-channel counts.
C9_ReplacedCount ==
    pc = "rv_returned" =>
        /\ \A c \in Channels :
              /\ oor_count[c] = Cardinality(OutsideRange(c))
              /\ {i \in SetToMissing(c) : arg_df[i][c].kind = "num"} = OutsideRange(c)
              /\ {i \in SetToMissing(c) : arg_df[i][c].kind = "text"}
                    = {i \in 1..Len(arg_df) : arg_df[i][c].kind = "text"}
        /\ total_replaced = SumSeq(oor_count, Len(oor_count))

C9_Witness ==
    /\ pc = "rv_returned" /\ call_no = 1
    /\ \E c \in Channels :
          /\ oor_count[c] = 2
          /\ \E i \in OutsideRange(c) : arg_df[i][c].val > range_dict[c].max
    /\ \E c \in Channels : \E i \in 1..Len(arg_df) :
          arg_df[i][c].kind = "text" /\ oor_count[c] = 0
    /\ total_replaced = 2

\* C9 as stated: the replaced count of a channel is the number of its cells the
\* call set to missing, those are exactly the cells whose value was outside the
\* range, and the total is the sum of the per-channel counts.
C9_Original ==
    pc = "rv_returned" =>
        /\ \A c \in Channels :
              /\ oor_count[c] = Cardinality(SetToMissing(c))
              /\ SetToMissing(c) = OutsideRange(c)
        /\ total_replaced = SumSeq(oor_count, Len(oor_count))

(***************************************************************************)
(* Properties of data_preprocessor (specification SpecPrep).               *)
(***************************************************************************)
InTable(df, row) == \E k \in 1..Len(df) : df[k] = row

\* C10: after the split every row whose gap to the preceding row is less than
\* 250 seconds is in the high-frequency partition and every row whose gap is
\* greater than 250 seconds is in the low-frequency partition, whatever the
\* size of the gap.
C10_Original ==
    pc \in {"dp_resample", "dp_concat", "dp_returned"} =>
        \A i \in 2..Len(input_df) :
            LET gap == input_df[i].t - input_df[i - 1].t
            IN  /\ gap < cadence_threshold => InTable(input_df_1min, input_df[i])
                /\ gap > cadence_threshold => InTable(input_df_15min, input_df[i])

\* C11: in the table data_preprocessor returns, no 5-minute bucket holds more
\* than one row.
C11_Original ==
    pc = "dp_returned" =>
        \A i, j \in 1..Len(result_df) :
            Bucket(result_df[i].t) = Bucket(result_df[j].t) => i = j

\* the rows of df in which the temperature and the RPM reading are not both missing
DropMissingBoth(df) ==
    SelectRows(df, {i \in 1..Len(df) : ~ (df[i].temp = 0 /\ df[i].rpm = 0)})

\* C12: the returned table is the concatenation of the two partitions without
\* exactly the rows in which both 'ME F.O. IN TEMP.' and 'ME RPM' are missing,
\* sorted by time; a row missing only one of the two is kept.
C12_Original ==
    pc = "dp_returned" =>
        result_df = SortIndex(DropMissingBoth(input_df_15min \o min1_resampled))

(***************************************************************************)
(* download_data (specification SpecDownload).                             *)
(* Times are seconds after start_date = datetime(2024, 6, 1).  final_df is *)
(* kept as [columns, rows]: whether the frame has columns (the column      *)
(* 'dataTime' among them) and how many rows it holds.                      *)
(***************************************************************************)
MaxFetched == 1

start_date == 0

\* datetime(2025, 7, 25) - datetime(2024, 6, 1)
end_date == 419 * SecondsPerDay

\* step = timedelta(days=15)
step_td == 15 * SecondsPerDay

\* pd.DataFrame()
EmptyFrame == [columns |-> FALSE, rows |-> 0]

\* What the request for one window can end in:
\*   "ok"         status 200 and a CSV body read_csv parses: a frame of k rows
\*   "status"     a status other than 200: trigger_api returns None
\*   "request"    requests.RequestException: trigger_api returns None
\*   "error"      any other exception (read_csv on the body, ...): trigger_api
\*                raises it
WindowOutcomes == {"ok", "status", "request", "error"}

\* the value trigger_api returns; <<>> is None
trigger_api(outcome, k) ==
    IF outcome = "ok" THEN [columns |-> TRUE, rows |-> k] ELSE <<>>

\* pd.concat([final_df, df]): a None is dropped silently
concat(frame, df) ==
    IF df = <<>> THEN frame
    ELSE [columns |-> frame.columns \/ df.columns, rows |-> frame.rows + df.rows]

\* current_end = min(current_start + step - timedelta(seconds=1), end_date)
WindowEnd(cs) == Min2(cs + step_td - 1, end_date)

\* variant of NextStart: the next window starts at the second the last one ends
NextStart_SameSecond(ce) == ce

\* current_start = current_end + timedelta(seconds=1)
NextStart(ce) == ce + 1

InitDownload ==
    /\ pc = "dl_loop"
    /\ current_start = start_date
    /\ current_end = 0
    /\ final_df = EmptyFrame
    /\ final_df_before = EmptyFrame
    /\ window_outcome = ""
    /\ n_requests = 0
    /\ SegIdle
    /\ RangeIdle
    /\ PrepIdle
    /\ EvalIdle

\* one iteration of the while loop: the request for a window, the concat (or
\* the except branch of line 416) and the move to the next window
FetchWindow ==
    /\ pc = "dl_loop"
    /\ current_start < end_date
    /\ current_end' = WindowEnd(current_start)
    /\ \E outcome \in WindowOutcomes : \E k \in 0..MaxFetched :
          /\ (outcome # "ok") => k = 0
          /\ window_outcome' = outcome
          /\ final_df' = IF outcome = "error" THEN final_df
                         ELSE concat(final_df, trigger_api(outcome, k))
    /\ final_df_before' = final_df
    /\ n_requests' = n_requests + 1
    /\ current_start' = NextStart(current_end')
    /\ UNCHANGED pc
    /\ UNCHANGED <<segVars, rangeVars, prepVars, evalVars>>

\* the loop ends; final_df.set_index('dataTime', inplace=True) raises KeyError
\* on a frame without that column
IndexRaises ==
    /\ pc = "dl_loop"
    /\ ~ (current_start < end_date)
    /\ ~ final_df.columns
    /\ pc' = "dl_raised"
    /\ UNCHANGED <<dlVars, segVars, rangeVars, prepVars, evalVars>>

\* the loop ends; set_index, to_numeric and the return
IndexAndReturn ==
    /\ pc = "dl_loop"
    /\ ~ (current_start < end_date)
    /\ final_df.columns
    /\ pc' = "dl_returned"
    /\ UNCHANGED <<dlVars, segVars, rangeVars, prepVars, evalVars>>

NextDownload ==
    \/ FetchWindow
    \/ IndexRaises
    \/ IndexAndReturn

SpecDownload == InitDownload /\ [][NextDownload]_vars

(***************************************************************************)
(* Properties of download_data (specification SpecDownload).               *)
(***************************************************************************)
\* the number of windows of the interval from start_date to end_date
NumWindows == ((end_date - start_date) + step_td - 1) \div step_td

\* C13: a window whose request fails contributes zero rows, the loop goes on
\* to request every later window, and the step completes without aborting,
\* whichever windows fail.
C13_Original ==
    /\ (window_outcome \in {"status", "request", "error"}) => final_df = final_df_before
    /\ (pc \in {"dl_raised", "dl_returned"}) => n_requests = NumWindows
    /\ pc # "dl_raised"

(***************************************************************************)
(* data_standardization, model_trainer, model_evaluator and                *)
(* evaluate_autoencoder_step, as the pipeline runs them on the filtered    *)
(* table (specification SpecEval).                                         *)
(* The filtered table is [columns, n]: its column names and its number of  *)
(* rows; its rows are 1..n.  A row carries one feature value.  The rows of *)
(* the test set are the annotated rows followed by the sampled normal rows.*)
(***************************************************************************)
MaxAnomalies == 4

MaxFiltered == 5

\* normal_sample_size=3000, as the pipeline passes it
normal_sample_size == 3000

anomaly_col == "Anomaly Reason"

\* drop_cols=['me_load', "ME SCAV AIR BOX TEMP (degree C)"]
drop_cols == {"me_load", "ME SCAV AIR BOX TEMP (C)"}

\* the entries of variables_used that concern the modelled columns
variables_used == [Shaft_RPM |-> "ME RPM", dataTime |-> "dataTime"]

\* anomalies.rename(columns=variables_used)
rename(columns, mapping) ==
    {IF c \in DOMAIN mapping THEN mapping[c] ELSE c : c \in columns}

\* the column sets of the filtered table and of the annotated sheet
TrainColumnInputs == (SUBSET {"ME RPM", "ME SHAFT POWER", "me_load"}) \ {{}}

ExcelColumnInputs == SUBSET {"Shaft_RPM", "me_load", "Remarks", "Anomaly Reason"}

\* the levels a reconstruction error takes
ErrorLevels == {1, 2, 3}

\* the feature value of row i of the filtered table, and of an annotated row
NormalFeature(i) == i

AnomalyFeature(j) == 0

SetMin(S) == CHOOSE x \in S : \A y \in S : x <= y

SetMax(S) == CHOOSE x \in S : \A y \in S : y <= x

\* MinMaxScaler().fit(values): the parameters the fit learns
Fit(values) == [data_min |-> SetMin(values), data_max |-> SetMax(values)]

\* scaler.transform on one value: (x - data_min) / (data_max - data_min), the
\* range replaced by 1 when it is 0; the value is <<numerator, denominator>>
Transform(sc, x) ==
    <<x - sc.data_min,
      IF sc.data_max = sc.data_min THEN 1 ELSE sc.data_max - sc.data_min>>

\* variant of ScalerAfterTransform: the evaluation refits the scaler on its data
ScalerAfterTransform_Refit(sc, values) == Fit(values)

\* the scaler after scaler.transform(X): transform changes no parameter
ScalerAfterTransform(sc, values) == sc

\* the subsets of S with k elements
SubsetsOfSize(S, k) == {R \in SUBSET S : Cardinality(R) = k}

\* train_test_split(train_size=0.8): n_train = floor(0.8 * n_samples)
NTrain(n) == (4 * n) \div 5

\* the feature value of row k of the test set
TestFeature(k, nAnom, sample) ==
    IF k <= nAnom THEN AnomalyFeature(k)
    ELSE NormalFeature(CHOOSE i \in sample :
                           Cardinality({h \in sample : h < i}) = k - nAnom - 1)

\* variant of CommonCols: the union of the two column sets
CommonCols_Union(anomalyColumns, normalColumns) == anomalyColumns \cup normalColumns

\* common_cols of lines 840-842
CommonCols(anomalyColumns, normalColumns) ==
    LET inter == anomalyColumns \cap normalColumns
    IN  IF anomaly_col \notin inter /\ anomaly_col \in anomalyColumns
        THEN inter \cup {anomaly_col} ELSE inter

\* the columns of X = test_data.drop(columns=[anomaly_col]) after the drop of
\* drop_cols
FeatureColumns(common) == ((common \cup {anomaly_col}) \ drop_cols) \ {anomaly_col}

InitEval ==
    /\ pc = "ds_start"
    /\ final_df1 \in [columns : TrainColumnInputs, n : 0..MaxFiltered]
    /\ excel_cols \in ExcelColumnInputs
    /\ n_anomalies \in 0..MaxAnomalies
    /\ scaler = <<>> /\ scaler_returned = <<>>
    /\ X_train = {} /\ X_valid = {} /\ trained_on = {} /\ normals = {}
    /\ common_cols = {} /\ X_cols = {} /\ X_scaled = <<>> /\ y_true = <<>>
    /\ reconstruction_error = <<>> /\ pr_curve = <<>> /\ result = <<>>
    /\ SegIdle
    /\ RangeIdle
    /\ PrepIdle
    /\ DlIdle

\* data_standardization: fit the scaler on the whole filtered table, split the
\* scaled rows (which rows the seeded shuffle puts in X_train is left open)
Standardize ==
    /\ pc = "ds_start"
    /\ NTrain(final_df1.n) >= 1
    /\ scaler' = Fit({NormalFeature(i) : i \in 1..final_df1.n})
    /\ scaler_returned' = scaler'
    /\ X_train' \in SubsetsOfSize(1..final_df1.n, NTrain(final_df1.n))
    /\ X_valid' = (1..final_df1.n) \ X_train'
    /\ pc' = "train"
    /\ UNCHANGED <<final_df1, excel_cols, n_anomalies, trained_on, normals, common_cols,
                   X_cols, X_scaled, y_true, reconstruction_error, pr_curve, result>>
    /\ UNCHANGED <<segVars, rangeVars, prepVars, dlVars>>

\* data_standardization raises ValueError: fit_transform on a table without
\* rows, or train_test_split leaving X_train empty
StandardizeRaises ==
    /\ pc = "ds_start"
    /\ NTrain(final_df1.n) < 1
    /\ pc' = "ds_raised"
    /\ UNCHANGED <<evalVars, segVars, rangeVars, prepVars, dlVars>>

\* model_trainer: autoencoder.fit(X_train, X_train, validation_data=(X_valid, X_valid))
Train ==
    /\ pc = "train"
    /\ trained_on' = X_train
    /\ pc' = "model_eval"
    /\ UNCHANGED <<final_df1, excel_cols, n_anomalies, scaler, scaler_returned, X_train,
                   X_valid, normals, common_cols, X_cols, X_scaled, y_true,
                   reconstruction_error, pr_curve, result>>
    /\ UNCHANGED <<segVars, rangeVars, prepVars, dlVars>>

\* model_evaluator: predicts on X_valid and logs; it is not given the scaler
ModelEvaluate ==
    /\ pc = "model_eval"
    /\ pc' = "ev_start"
    /\ UNCHANGED <<evalVars, segVars, rangeVars, prepVars, dlVars>>

\* evaluate_autoencoder_step, lines 832-855: the annotated rows, the sample of
\* normal rows (which rows the seeded draw takes is left open), common_cols,
\* test_data and y_true
EvalBuildTestSet ==
    /\ pc = "ev_start"
    /\ anomaly_col \in excel_cols
    /\ normals' \in SubsetsOfSize(1..final_df1.n, Min2(normal_sample_size, final_df1.n))
    /\ common_cols' = CommonCols(rename(excel_cols, variables_used), final_df1.columns)
    /\ y_true' = [k \in 1..(n_anomalies + Cardinality(normals')) |->
                     IF k <= n_anomalies THEN 1 ELSE 0]
    /\ pc' = "ev_features"
    /\ UNCHANGED <<final_df1, excel_cols, n_anomalies, scaler, scaler_returned, X_train,
                   X_valid, trained_on, X_cols, X_scaled, reconstruction_error, pr_curve,
                   result>>
    /\ UNCHANGED <<segVars, rangeVars, prepVars, dlVars>>

\* test[anomaly_col] raises KeyError on a sheet without the annotation column
EvalReadRaises ==
    /\ pc = "ev_start"
    /\ anomaly_col \notin excel_cols
    /\ pc' = "ev_raised"
    /\ UNCHANGED <<evalVars, segVars, rangeVars, prepVars, dlVars>>

\* variant of FeaturesAvailable: a column the test data lacks is filled in
\* rather than looked up
FeaturesAvailable_ZeroFill == Len(y_true) >= 1

\* X = X[final_df1.columns] finds every column, and the matrix has a row
FeaturesAvailable ==
    /\ final_df1.columns \subseteq FeatureColumns(common_cols)
    /\ Len(y_true) >= 1

\* lines 858-860: the feature matrix in the order of the training columns,
\* scaled with the scaler the step was given
EvalFeatures ==
    /\ pc = "ev_features"
    /\ FeaturesAvailable
    /\ X_cols' = final_df1.columns
    /\ LET X == [k \in 1..Len(y_true) |-> TestFeature(k, n_anomalies, normals)]
       IN  /\ X_scaled' = [k \in 1..Len(X) |-> Transform(scaler, X[k])]
           /\ scaler' = ScalerAfterTransform(scaler, {X[k] : k \in 1..Len(X)})
    /\ pc' = "ev_predict"
    /\ UNCHANGED <<final_df1, excel_cols, n_anomalies, scaler_returned, X_train, X_valid,
                   trained_on, normals, common_cols, y_true, reconstruction_error,
                   pr_curve, result>>
    /\ UNCHANGED <<segVars, rangeVars, prepVars, dlVars>>

\* X[final_df1.columns] raises KeyError on a missing column; scaler.transform
\* raises ValueError on a matrix without rows
EvalFeaturesRaise ==
    /\ pc = "ev_features"
    /\ ~ FeaturesAvailable
    /\ pc' = "ev_raised"
    /\ UNCHANGED <<evalVars, segVars, rangeVars, prepVars, dlVars>>

\* the elements of a set of numbers in ascending order
RECURSIVE SortedSeq(_)
SortedSeq(S) ==
    IF S = {} THEN <<>>
    ELSE LET m == SetMin(S) IN <<m>> \o SortedSeq(S \ {m})

\* the error vectors the prediction is drawn from: one level per row of the
\* test set, listed in ascending order within the annotated rows and within the
\* sampled rows (the metrics depend on the counts per level and label only)
Ascending(n) ==
    {e \in [1..n -> ErrorLevels] : \A k \in 1..(n - 1) : e[k] <= e[k + 1]}

ErrorInputs(nAnom, nRows) ==
    {a \o b : a \in Ascending(nAnom), b \in Ascending(nRows - nAnom)}

\* lines 870-871: the reconstruction error of each row, whatever the model predicts
EvalPredict ==
    /\ pc = "ev_predict"
    /\ reconstruction_error' \in ErrorInputs(n_anomalies, Len(y_true))
    /\ pc' = "ev_metrics"
    /\ UNCHANGED <<final_df1, excel_cols, n_anomalies, scaler, scaler_returned, X_train,
                   X_valid, trained_on, normals, common_cols, X_cols, X_scaled, y_true,
                   pr_curve, result>>
    /\ UNCHANGED <<segVars, rangeVars, prepVars, dlVars>>

\* the rows with label lab whose score satisfies the comparison with v
CountGE(y, err, lab, v) == Cardinality({k \in 1..Len(y) : y[k] = lab /\ err[k] >= v})

CountGT(y, err, lab, v) == Cardinality({k \in 1..Len(y) : y[k] = lab /\ err[k] > v})

Positives(y) == Cardinality({k \in 1..Len(y) : y[k] = 1})

\* the releases of scikit-learn the curve depends on: "truncating" ones stop
\* the curve at the highest threshold with full recall and divide by the number
\* of positives even when it is 0; "full" ones keep every threshold and set the
\* recall to 1 when there is no positive
SklearnVersions == {"truncating", "full"}

\* precision_recall_curve(y_true, reconstruction_error) without its final
\* (1, 0) point: one candidate per distinct score, ascending, a row being
\* predicted positive when its score >= threshold
\* one point of the curve, precision and recall as <<numerator, denominator>>
\* (0 / 0 is nan)
CurvePoint(y, err, version, v) ==
    LET tp == CountGE(y, err, 1, v)
        fp == CountGE(y, err, 0, v)
        P == Positives(y)
    IN  [threshold |-> v,
         precision |-> <<tp, tp + fp>>,
         recall |-> IF P > 0 THEN <<tp, P>>
                    ELSE IF version = "full" THEN <<1, 1>> ELSE <<0, 0>>]

RECURSIVE CurvePoints(_, _, _, _)
CurvePoints(y, err, version, thresholds) ==
    IF thresholds = <<>> THEN <<>>
    ELSE <<CurvePoint(y, err, version, Head(thresholds))>>
             \o CurvePoints(y, err, version, Tail(thresholds))

precision_recall_curve(y, err, version) ==
    LET scores == {err[k] : k \in 1..Len(err)}
        full_recall == {v \in scores : CountGE(y, err, 1, v) = Positives(y)}
        kept == IF version = "truncating"
                THEN {v \in scores : v >= SetMax(full_recall)}
                ELSE scores
    IN  CurvePoints(y, err, version, SortedSeq(kept))

\* 2 * p * r / (p + r + 1e-12) for p = a/b and r = c/d is the exact fraction
\* 2ac * 10^12 / ((ad + cb) * 10^12 + bd), kept as <<2ac, ad + cb, bd>>; nan
\* (bd = 0) when the recall is
F1Score(c) ==
    IF c.recall[2] = 0 THEN <<0, 0, 0>>
    ELSE LET a == c.precision[1]
             b == c.precision[2]
             cc == c.recall[1]
             d == c.recall[2]
         IN  <<2 * a * cc, a * d + cc * b, b * d>>

IsNan(f) == f[3] = 0

\* f > g for two scores <<n, s, t>>, that is
\* 10^12 * (f.n * g.s - g.n * f.s) + (f.n * g.t - g.n * f.t) > 0, decided by
\* the sign of the first difference and, when it is 0, of the second (which is
\* below 10^12 in absolute value); no comparison with nan is true
F1Greater(f, g) ==
    /\ ~ IsNan(f)
    /\ ~ IsNan(g)
    /\ LET X == f[1] * g[2] - g[1] * f[2]
           Y == f[1] * g[3] - g[1] * f[3]
       IN  X > 0 \/ (X = 0 /\ Y > 0)

\* variant of argmax: the last index of the maximum
argmax_Last(f1_scores) ==
    IF \E i \in 1..Len(f1_scores) : IsNan(f1_scores[i])
    THEN CHOOSE i \in 1..Len(f1_scores) :
             IsNan(f1_scores[i]) /\ \A j \in 1..(i - 1) : ~ IsNan(f1_scores[j])
    ELSE CHOOSE i \in 1..Len(f1_scores) :
             /\ \A j \in 1..Len(f1_scores) : ~ F1Greater(f1_scores[j], f1_scores[i])
             /\ \A j \in (i + 1)..Len(f1_scores) : F1Greater(f1_scores[i], f1_scores[j])

\* np.argmax: the first index of the maximum, the first nan when there is one
argmax(f1_scores) ==
    IF \E i \in 1..Len(f1_scores) : IsNan(f1_scores[i])
    THEN CHOOSE i \in 1..Len(f1_scores) :
             IsNan(f1_scores[i]) /\ \A j \in 1..(i - 1) : ~ IsNan(f1_scores[j])
    ELSE CHOOSE i \in 1..Len(f1_scores) :
             /\ \A j \in 1..Len(f1_scores) : ~ F1Greater(f1_scores[j], f1_scores[i])
             /\ \A j \in 1..(i - 1) : F1Greater(f1_scores[i], f1_scores[j])

\* y_pred_best = (reconstruction_error > best_threshold) and the labels that
\* confusion_matrix finds in y_true and y_pred_best together
LabelsPresent(y, err, best_threshold) ==
    {y[k] : k \in 1..Len(y)} \cup {IF err[k] > best_threshold THEN 1 ELSE 0 : k \in 1..Len(y)}

\* lines 876-881: the candidate the step reports
RECURSIVE F1Scores(_)
F1Scores(curve) ==
    IF curve = <<>> THEN <<>> ELSE <<F1Score(Head(curve))>> \o F1Scores(Tail(curve))

BestCandidate(curve) ==
    LET best_idx == argmax(F1Scores(curve))
    IN  [best_threshold |-> curve[best_idx].threshold,
         best_f1 |-> F1Score(curve[best_idx]),
         best_precision |-> curve[best_idx].precision,
         best_recall |-> curve[best_idx].recall]

\* lines 873-886 and 982-1002: the curve, the best candidate, the confusion
\* matrix of the predictions (error > best_threshold) and the returned metrics
EvalMetrics ==
    /\ pc = "ev_metrics"
    /\ \E version \in SklearnVersions :
       \E best \in {BestCandidate(precision_recall_curve(y_true, reconstruction_error,
                                                          version))} :
          LET tp == CountGT(y_true, reconstruction_error, 1, best.best_threshold)
              fp == CountGT(y_true, reconstruction_error, 0, best.best_threshold)
              fn == Positives(y_true) - tp
              tn == (Len(y_true) - Positives(y_true)) - fp
          IN  /\ Cardinality(LabelsPresent(y_true, reconstruction_error,
                                           best.best_threshold)) = 2
              /\ pr_curve' = precision_recall_curve(y_true, reconstruction_error, version)
              /\ result' = [best_threshold |-> best.best_threshold,
                            best_f1 |-> best.best_f1,
                            best_precision |-> best.best_precision,
                            best_recall |-> best.best_recall,
                            accuracy |-> <<tp + tn, Len(y_true)>>,
                            tn |-> tn, fp |-> fp, fn |-> fn, tp |-> tp]
    /\ pc' = "ev_returned"
    /\ UNCHANGED <<final_df1, excel_cols, n_anomalies, scaler, scaler_returned, X_train,
                   X_valid, trained_on, normals, common_cols, X_cols, X_scaled, y_true,
                   reconstruction_error>>
    /\ UNCHANGED <<segVars, rangeVars, prepVars, dlVars>>

\* tn, fp, fn, tp = cm_best.ravel() raises ValueError when y_true and
\* y_pred_best hold one label only: the matrix is 1 x 1
EvalMetricsRaises ==
    /\ pc = "ev_metrics"
    /\ \E version \in SklearnVersions :
       \E best \in {BestCandidate(precision_recall_curve(y_true, reconstruction_error,
                                                          version))} :
          /\ Cardinality(LabelsPresent(y_true, reconstruction_error,
                                       best.best_threshold)) = 1
          /\ pr_curve' = precision_recall_curve(y_true, reconstruction_error, version)
    /\ pc' = "ev_raised"
    /\ UNCHANGED <<final_df1, excel_cols, n_anomalies, scaler, scaler_returned, X_train,
                   X_valid, trained_on, normals, common_cols, X_cols, X_scaled, y_true,
                   reconstruction_error, result>>
    /\ UNCHANGED <<segVars, rangeVars, prepVars, dlVars>>

NextEval ==
    \/ Standardize
    \/ StandardizeRaises
    \/ Train
    \/ ModelEvaluate
    \/ EvalBuildTestSet
    \/ EvalReadRaises
    \/ EvalFeatures
    \/ EvalFeaturesRaise
    \/ EvalPredict
    \/ EvalMetrics
    \/ EvalMetricsRaises

SpecEval == InitEval /\ [][NextEval]_vars

\* ---------------------------------------------------------------------------
\* Properties of the evaluation step
\* ---------------------------------------------------------------------------

\* a column of final_df1 that the annotated sheet lacks after the rename
MissingTrainingColumn ==
    ~ (final_df1.columns \subseteq rename(excel_cols, variables_used))

EvalProceeded == pc \in {"ev_predict", "ev_metrics", "ev_returned"}

\* C14: whenever a column of final_df1 is missing from the evaluation data after
\* the rename, evaluate_autoencoder_step fails with an error: from the column
\* selection it goes to the raised state, and it never scales, predicts or
\* returns metrics with a filled-in column
C14_MissingColumnRaises ==
    [][/\ (pc = "ev_features" /\ MissingTrainingColumn) => pc' = "ev_raised"
       /\ MissingTrainingColumn' =>
              (~ EvalProceeded' /\ X_cols' = {} /\ X_scaled' = <<>> /\ result' = <<>>)]_vars

\* the step built its test set from a sheet that has 'ME RPM' (as Shaft_RPM) but
\* lacks another training column, and raised
C14_Witness ==
    /\ pc = "ev_raised"
    /\ y_true # <<>>
    /\ "ME RPM" \in common_cols
    /\ "ME SHAFT POWER" \in final_df1.columns
    /\ MissingTrainingColumn

\* the feature columns of the annotated rows, and those they share with the
\* normal rows
AnomalyFeatureColumns == rename(excel_cols, variables_used) \ {anomaly_col}

IntersectingColumns == AnomalyFeatureColumns \cap final_df1.columns

NotFullOverlap == AnomalyFeatureColumns # final_df1.columns

\* the column selection of lines 858-860 has been executed
FeatureStageDone == y_true # <<>> /\ pc # "ev_features"

\* C15: when the column sets of the anomaly and the normal rows differ, the
\* columns only the annotated sheet has are discarded, and the feature matrix
\* passed to the scaler holds exactly the columns of final_df1, which are then
\* the intersecting columns; when final_df1 has a column that the sheet lacks
\* or that drop_cols removes, the step raises and no matrix is passed on
C15_IntersectionOrRaise ==
    (FeatureStageDone /\ NotFullOverlap) =>
        IF final_df1.columns \subseteq (IntersectingColumns \ drop_cols)
        THEN /\ X_cols = IntersectingColumns
             /\ X_cols = final_df1.columns
             /\ Len(X_scaled) = Len(y_true)
        ELSE /\ pc = "ev_raised"
             /\ X_cols = {}
             /\ X_scaled = <<>>

\* the sheet has a column the filtered table lacks, and the matrix was scaled
C15_Witness ==
    /\ pc = "ev_predict"
    /\ NotFullOverlap
    /\ "Remarks" \in excel_cols
    /\ X_cols = {"ME RPM"}
    /\ Len(X_scaled) >= 1

\* C15 as stated: whenever the column sets differ, the evaluation goes on with
\* the intersection, and the matrix given to the scaler has exactly the
\* intersecting feature columns
C15_Original ==
    (FeatureStageDone /\ NotFullOverlap) =>
        (X_cols = IntersectingColumns /\ Len(X_scaled) = Len(y_true))

\* the F1 of a candidate, 2pr / (p + r) without the 1e-12 (0 when p = r = 0),
\* as <<numerator, denominator>>; sc is the score <<2ac, ad + cb, bd>>
ExactF1(sc) == IF sc[2] = 0 THEN <<0, 1>> ELSE <<sc[1], sc[2]>>

ExactF1Greater(f, g) == ExactF1(f)[1] * ExactF1(g)[2] > ExactF1(g)[1] * ExactF1(f)[2]

ExactF1Equal(f, g) == ExactF1(f)[1] * ExactF1(g)[2] = ExactF1(g)[1] * ExactF1(f)[2]

\* precision + recall = (ad + cb) / bd of f exceeds that of g
PRSumGreater(f, g) == f[2] * g[3] > g[2] * f[3]

\* f comes before g in the order (F1, precision + recall)
F1ThenSumGreater(f, g) ==
    ExactF1Greater(f, g) \/ (ExactF1Equal(f, g) /\ PRSumGreater(f, g))

\* the metrics were returned for a test set with at least one annotated row
ReturnedWithPositives == pc = "ev_returned" /\ Positives(y_true) >= 1

\* C16: best_threshold is a candidate threshold of the precision-recall curve,
\* its F1 is maximal over all candidates, and among the candidates of maximal
\* F1 it is the one with the largest precision + recall, the first of those
C16_BestIsMaximal ==
    ReturnedWithPositives =>
        \E i \in 1..Len(pr_curve) :
            LET f1 == F1Scores(pr_curve)
            IN  /\ result.best_threshold = pr_curve[i].threshold
                /\ result.best_f1 = f1[i]
                /\ \A j \in 1..Len(pr_curve) : ~ ExactF1Greater(f1[j], f1[i])
                /\ \A j \in 1..Len(pr_curve) : ~ F1ThenSumGreater(f1[j], f1[i])
                /\ \A j \in 1..(i - 1) : F1ThenSumGreater(f1[i], f1[j])

\* two candidates tie in F1 and the later one was selected
C16_Witness ==
    /\ ReturnedWithPositives
    /\ \E i, j \in 1..Len(pr_curve) :
          /\ j < i
          /\ result.best_threshold = pr_curve[i].threshold
          /\ ExactF1Equal(F1Score(pr_curve[i]), F1Score(pr_curve[j]))

\* C16 as stated: best_threshold is the first candidate whose F1 is maximal
C16_Original ==
    ReturnedWithPositives =>
        \E i \in 1..Len(pr_curve) :
            LET f1 == F1Scores(pr_curve)
            IN  /\ result.best_threshold = pr_curve[i].threshold
                /\ \A j \in 1..Len(pr_curve) : ~ ExactF1Greater(f1[j], f1[i])
                /\ \A j \in 1..(i - 1) : ExactF1Greater(f1[i], f1[j])

\* C17 as stated: the reported best_precision is tp / (tp + fp) and the reported
\* best_recall is tp / (tp + fn) for the reported confusion-matrix counts
C17_Original ==
    ReturnedWithPositives =>
        /\ result.tp + result.fp > 0
        /\ result.best_precision[1] * (result.tp + result.fp)
               = result.tp * result.best_precision[2]
        /\ result.tp + result.fn > 0
        /\ result.best_recall[1] * (result.tp + result.fn)
               = result.tp * result.best_recall[2]

\* C18 as stated: no row of the normal sample of the test set is a row the
\* model was trained on
C18_Original ==
    y_true # <<>> => normals \cap trained_on = {}

\* the parameters data_standardization learned from the filtered table
FittedOnFilteredTable == Fit({NormalFeature(i) : i \in 1..final_df1.n})

\* C19: once data_standardization has fitted the scaler, no step changes its
\* parameters: the scaler the evaluation holds, before and after its transform,
\* is the one data_standardization returned, and the scaled test rows are the
\* transform of the test rows under the parameters of that fit
C19_ScalerUnmodified ==
    [][/\ scaler # <<>> => scaler' = scaler
       /\ scaler_returned # <<>> => scaler_returned' = scaler_returned
       /\ scaler' = scaler_returned'
       /\ scaler' # <<>> => scaler' = FittedOnFilteredTable
       /\ X_scaled' # <<>> =>
              \A k \in 1..Len(X_scaled') :
                  X_scaled'[k] = Transform(FittedOnFilteredTable,
                                           TestFeature(k, n_anomalies, normals'))]_vars

\* the evaluation transformed an annotated row whose value lies below the
\* fitted minimum (its scaled value is negative), and the scaler is as returned
C19_Witness ==
    /\ pc = "ev_predict"
    /\ n_anomalies >= 1
    /\ X_scaled # <<>>
    /\ X_scaled[1][1] < 0
    /\ scaler = scaler_returned
    /\ scaler = FittedOnFilteredTable

\* ---------------------------------------------------------------------------
\* Window construction of steady_state_extraction_core (specification SpecSeg)
\* ---------------------------------------------------------------------------

WindowsBuilt == pc \in {"cluster", "project", "raised", "core_done", "returned"}

\* the start positions 0, step, 2 * step, ... that leave at least L samples
StartsLeavingL ==
    {s \in 0..Len(series) : s % step = 0 /\ s + L <= Len(series)}

\* C20: for a series of T samples there is one window for each start position
\* 0, step, 2 * step, ... with start + L <= T, in that order, each window is
\* the L consecutive smoothed samples from its start, and there is no window
\* when T < L
C20_WindowsPerStart ==
    WindowsBuilt =>
        /\ Len(series_smoothed) = Len(series)
        /\ Len(windows) = Cardinality(StartsLeavingL)
        /\ \A k \in 1..Len(windows) :
              /\ (k - 1) * step \in StartsLeavingL
              /\ Len(windows[k]) = L
              /\ \A i \in 1..L : windows[k][i] = series_smoothed[(k - 1) * step + i]
        /\ Len(series) < L => windows = <<>>

\* a stride of 2 over 5 samples with L = 2: the starts 0 and 2, and a last
\* window that ends one sample before the end of the series
C20_Witness ==
    /\ WindowsBuilt
    /\ Len(series) = 5
    /\ L = 2
    /\ step = 2
    /\ Len(windows) = 2

\* ---------------------------------------------------------------------------
\* Transition matrices of steady_state_extraction_core (specification SpecSeg)
\* ---------------------------------------------------------------------------

\* the positions t < Len(st), counted one by one from the front, at which the
\* window is in state i and in state j at the next position
RECURSIVE CountTransitions(_, _, _)
CountTransitions(st, i, j) ==
    IF Len(st) < 2 THEN 0
    ELSE (IF st[1] = i /\ st[2] = j THEN 1 ELSE 0) + CountTransitions(Tail(st), i, j)

RECURSIVE SumOver(_, _)
SumOver(f, S) ==
    IF S = {} THEN 0
    ELSE LET x == CHOOSE y \in S : TRUE IN f[x] + SumOver(f, S \ {x})

\* state i has a transition out of it in the window
HasOutgoing(st, i) == \E t \in 1..(Len(st) - 1) : st[t] = i

MultiClusterWindows == {k \in 1..Len(states) : NumStates(states[k]) >= 2}

\* C21: for every window with r >= 2 clusters, the states are 0..r-1, C[i][j]
\* is the number of positions t with state i at t and state j at t+1
\* (self-transitions included), the entries of C sum to L-1, and each row of P
\* either sums to 1 or is all zero, all zero exactly for a state with no
\* outgoing transition in the window
C21_TransitionMatrix ==
    \A k \in MultiClusterWindows :
        LET st == states[k]
            r == NumStates(st)
            C == TransitionCounts(st)
            P == TransitionProbs(C)
            S == 0..(r - 1)
        IN  /\ Len(st) = L
            /\ \A t \in 1..L : st[t] \in S
            /\ DOMAIN C = S
            /\ \A i, j \in S : C[i][j] = CountTransitions(st, i, j)
            /\ SumOver([i \in S |-> SumOver(C[i], S)], S) = L - 1
            /\ \A i \in S :
                  IF HasOutgoing(st, i)
                  THEN /\ \A j \in S : P[i][j][2] = RowSum(C, i) /\ P[i][j][1] = C[i][j]
                       /\ SumOver([j \in S |-> P[i][j][1]], S) = RowSum(C, i)
                       /\ RowSum(C, i) > 0
                  ELSE \A j \in S : P[i][j][1] = 0

\* a window with two clusters, a self-transition, and a state that is only the
\* last sample of the window, so that its row of P is all zero
C21_Witness ==
    \E k \in MultiClusterWindows :
        LET st == states[k]
            C == TransitionCounts(st)
        IN  /\ \E i \in DOMAIN C : C[i][i] >= 1
            /\ \E i \in DOMAIN C : ~ HasOutgoing(st, i) /\ RowSum(C, i) = 0

\* C22 as stated: for L >= 2 every window label is at least 1, so the final
\* label of a sample is 0 only when the windows covering it disagree or when no
\* window covers it
C22_Original ==
    (CoreDone /\ L >= 2) =>
        /\ \A k \in 1..Len(seq_labels) : seq_labels[k] >= 1
        /\ \A t \in 0..(Len(series) - 1) :
              final_labels[t + 1] = 0 =>
                  \/ CoveringWindows(t) = {}
                  \/ \E k1, k2 \in CoveringWindows(t) : seq_labels[k1] # seq_labels[k2]

\* C23: when the series has fewer than L samples, no window is formed and
\* nothing is clustered, so the core cannot raise; every final label is 0, and
\* steady_state_extraction returns a table without rows
C23_ShortSeries ==
    Len(series) < L =>
        /\ windows = <<>> /\ states = <<>> /\ seq_labels = <<>>
        /\ pc \in {"start", "windows", "project", "core_done", "returned"}
        /\ CoreDone =>
              /\ Len(final_labels) = Len(series)
              /\ \A t \in 1..Len(final_labels) : final_labels[t] = 0
        /\ pc = "returned" => steady_df = {}

\* the step returned for a series of L - 1 >= 1 samples
C23_Witness ==
    /\ pc = "returned"
    /\ Len(series) = L - 1
    /\ Len(series) >= 1
    /\ Len(final_labels) = Len(series)
    /\ steady_df = {}

\* ---------------------------------------------------------------------------
\* Rows outside both cadence partitions (specification SpecPrep)
\* ---------------------------------------------------------------------------

\* the positions of input_df that C24 is about: the first row, and every row
\* whose gap to the preceding row is exactly 250 seconds
UnclassifiedRows ==
    {i \in 1..Len(input_df) :
        i = 1 \/ input_df[i].t - input_df[i - 1].t = cadence_threshold}

ClassifiedRows == (1..Len(input_df)) \ UnclassifiedRows

SplitDone == pc \in {"dp_resample", "dp_concat", "dp_returned"}

\* C24: the first row of input_df and every row whose gap to the preceding row
\* is exactly 250 seconds are in neither cadence partition, and the returned
\* table is made of the other rows only: each returned row is one of them, as
\* it is or moved to its 5-minute bucket, and there are no more returned rows
\* than other rows
C24_UnclassifiedDropped ==
    /\ SplitDone =>
          /\ \A i \in UnclassifiedRows :
                i \notin HighFrequencyMask(diffs) /\ i \notin LowFrequencyMask(diffs)
          /\ input_df_1min =
                 SelectRows(input_df, {i \in ClassifiedRows : diffs[i] < cadence_threshold})
          /\ input_df_15min =
                 SelectRows(input_df, {i \in ClassifiedRows : diffs[i] > cadence_threshold})
          /\ Len(input_df_1min) + Len(input_df_15min) = Cardinality(ClassifiedRows)
    /\ pc = "dp_returned" =>
          /\ Len(result_df) <= Cardinality(ClassifiedRows)
          /\ \A k \in 1..Len(result_df) :
                \E i \in ClassifiedRows :
                    \/ result_df[k] = input_df[i]
                    \/ result_df[k] = [input_df[i] EXCEPT !.t = Bucket(input_df[i].t)]

\* three complete rows at 0, 900 and 1150 seconds: the first row and the row
\* 250 seconds after its predecessor are gone, the returned table is the
\* middle row
C24_Witness ==
    /\ pc = "dp_returned"
    /\ Len(input_df) = 3
    /\ input_df[2].t - input_df[1].t = 900
    /\ input_df[3].t - input_df[2].t = cadence_threshold
    /\ \A i \in 1..3 : input_df[i].temp = 1 /\ input_df[i].rpm = 1
    /\ result_df = <<input_df[2]>>

\* ---------------------------------------------------------------------------
\* The windows requested by download_data (specifications SpecDownload and
\* SpecDownloadLive)
\* ---------------------------------------------------------------------------

\* every statement of the loop completes: a request returns or raises
SpecDownloadLive == SpecDownload /\ WF_vars(NextDownload)

FifteenDays == 15 * SecondsPerDay

\* C25: the first window starts at start_date; a window [current_start,
\* current_end'] is not empty, spans at most 15 days and ends by end_date; the
\* next window starts exactly one second after it ends, whatever the outcome of
\* the request; when the loop is left the last window ended at end_date; and
\* the loop is left after at most NumWindows requests
C25_WindowsPartition ==
    /\ [](n_requests = 0 => current_start = start_date)
    /\ [](n_requests >= 1 => current_start = current_end + 1)
    /\ [][n_requests' # n_requests =>
             /\ n_requests' = n_requests + 1
             /\ current_start <= current_end'
             /\ current_end' - current_start + 1 <= FifteenDays
             /\ current_end' <= end_date
             /\ current_start' = current_end' + 1]_vars
    /\ [](pc # "dl_loop" => (current_end = end_date /\ n_requests >= 1))
    /\ [](n_requests <= NumWindows)
    /\ <>(pc # "dl_loop")

\* the loop was left after the last, shorter window, although a request failed
C25_Witness ==
    /\ pc = "dl_returned"
    /\ n_requests = NumWindows
    /\ current_end = end_date
    /\ current_start = end_date + 1
    /\ window_outcome # "ok"

====
